---- MODULE Spec2Model ----
(***************************************************************************)
(* Model of meta_learn/proto/train.py: main() builds the datasets, the     *)
(* model and the optimizer once, then runs `epochs` sequential epochs,     *)
(* each a train() pass followed, when t % log_every == 0, by a test()      *)
(* pass and three writer.add_scalar calls.                                 *)
(*                                                                         *)
(* Library values are symbolic: the parameters are the count of optimizer  *)
(* updates applied to them, logits are the pair (parameters, batch) they   *)
(* were computed from, and a loss, an accuracy or a mean is the term that  *)
(* names its arguments.                                                    *)
(***************************************************************************)
EXTENDS Integers, Sequences, FiniteSets, TLC

\* ------------------------------------------------------------------ bounds
MaxEpochs == 3
MaxLogEvery == 2
MaxNumBatches == 1
MaxLoaderLen == 3

\* --epochs, --log_every, --num_batches are type=int: negatives parse too.
EpochsVals == -1..MaxEpochs
LogEveryVals == -1..MaxLogEvery
NumBatchesVals == -1..MaxNumBatches
LoaderLens == 0..MaxLoaderLen

\* Absolute paths as sequences of components.
Paths == {<<"w">>, <<"w", "run">>}

\* ----------------------------------------------------------------- helpers
\* Mutant: the epoch counted from one, as the printed "Epoch t+1" is.
PyModOneBased(a, b) == IF b > 0 THEN (a + 1) % b ELSE -((-(a + 1)) % (-b))

\* Python's %: the result takes the sign of the divisor (b # 0).
PyMod(a, b) == IF b > 0 THEN a % b ELSE -((-a) % (-b))

\* os.path.abspath(os.path.join(path, os.pardir)); the parent of / is /.
ParentDir(p) == IF Len(p) = 0 THEN p ELSE SubSeq(p, 1, Len(p) - 1)

\* f"{parent_dir}/data/"
DataPath(p) == ParentDir(p) \o <<"data">>

\* f"{data_path}/omniglot"
OmniglotDir(p) == DataPath(p) \o <<"omniglot">>

\* The directories whose presence the runs vary.
Dirs == {<<"data", "omniglot">>, <<"w", "data", "omniglot">>}

\* omniglot(data_path, ..., download=d): a download leaves data_path/omniglot
\* on disk.
DownloadEffect(files, root, d) ==
    IF d THEN files \cup {root \o <<"omniglot">>} ELSE files

\* The batch a loader yields at position i of one iteration.
Batch(split, i) == [split |-> split, idx |-> i]

\* model(support_x, support_y, query_x)
Forward(p, b) == [params |-> p, batch |-> b]

\* loss_fn(logits, query_y)
LossFn(lg) == [op |-> "loss", of |-> lg]

\* torch.mean((argmax(logits) == query_y).float())
Accuracy(lg) == [op |-> "acc", of |-> lg]

\* np.mean(list)
Mean(l) == [op |-> "mean", of |-> l]

\* A Python bool held by a name.
PyBool(b) == [op |-> "bool", of |-> b]

\* A name not yet bound.
Unbound == [op |-> "unbound"]

\* The calls of one loop iteration, in the order made.
NoCalls == <<>>

VARIABLES
    config,         \* the parsed flags: epochs, log_every, num_batches, path
    files,          \* the directories that exist
    trainLen,       \* batches the train loader yields per iteration
    testLen,        \* batches the test loader yields per iteration
    pc,             \* position of the single thread of control
    error,          \* the exception main() ended with, or "none"
    failedIn,       \* the phase the exception was raised in
    download,       \* main's download flag
    train_dataset,  \* download value the train dataset was built with
    test_dataset,   \* download value the test dataset was built with
    params,         \* model parameters: number of updates applied
    optState,       \* optimizer state: number of steps taken
    grad,           \* the .grad buffers: losses back-propagated into them
    t,              \* epoch index of main's loop
    it,             \* batches the running loop's iterator has yielded
    batch_idx,      \* enumerate index of the running loop
    batch,          \* the batch being processed
    logits,
    loss,
    accuracy,
    avg_loss,       \* the running call's loss list
    accuracy_list,  \* test()'s accuracy list
    train_loss,     \* main's locals
    test_loss,
    test_accuracy,
    scalars,        \* writer.add_scalar calls, in order
    cnt,            \* library calls made by the running train()/test() call
    batchLog,       \* library calls made for the current batch, in order
    trainCalls,     \* train() calls started
    testCalls       \* test() calls started

setupVars == <<download, train_dataset, test_dataset>>
envVars == <<config, trainLen, testLen>>
learnVars == <<params, optState, grad>>
loopVars == <<it, batch_idx, batch, logits, loss, accuracy, avg_loss, accuracy_list>>
mainVars == <<train_loss, test_loss, test_accuracy, scalars>>
obsVars == <<cnt, batchLog, trainCalls, testCalls>>
vars == <<config, files, trainLen, testLen, pc, error, failedIn, download,
          train_dataset, test_dataset, params, optState, grad, t, it,
          batch_idx, batch, logits, loss, accuracy, avg_loss, accuracy_list, train_loss,
          test_loss, test_accuracy, scalars, cnt, batchLog, trainCalls,
          testCalls>>

ZeroCnt == [forward |-> 0, backward |-> 0, step |-> 0]

Bump(c, f) == [c EXCEPT ![f] = @ + 1]

Init ==
    /\ config \in [epochs : EpochsVals, log_every : LogEveryVals,
                   num_batches : NumBatchesVals, path : Paths]
    /\ files \in SUBSET Dirs
    /\ trainLen \in LoaderLens
    /\ testLen \in LoaderLens
    /\ pc = "writer"
    /\ error = "none"
    /\ failedIn = "none"
    /\ download = Unbound
    /\ train_dataset = Unbound
    /\ test_dataset = Unbound
    /\ params = 0
    /\ optState = 0
    /\ grad = <<>>
    /\ t = 0
    /\ it = 0
    /\ batch_idx = 0
    /\ batch = Unbound
    /\ logits = Unbound
    /\ loss = Unbound
    /\ accuracy = Unbound
    /\ avg_loss = <<>>
    /\ accuracy_list = <<>>
    /\ train_loss = Unbound
    /\ test_loss = Unbound
    /\ test_accuracy = Unbound
    /\ scalars = <<>>
    /\ cnt = ZeroCnt
    /\ batchLog = NoCalls
    /\ trainCalls = 0
    /\ testCalls = 0

\* ------------------------------------------------------------ main: set-up
\* writer = SummaryWriter(logdir)
MainWriter ==
    /\ pc = "writer"
    /\ pc' = "download"
    /\ UNCHANGED <<envVars, files, error, failedIn, setupVars, learnVars, t,
                   loopVars, mainVars, obsVars>>

\* download = True; if os.path.exists(f"{data_path}/omniglot"): download = False
MainDownloadFlag ==
    /\ pc = "download"
    /\ download' = PyBool(OmniglotDir(config.path) \notin files)
    /\ pc' = "train_dataset"
    /\ UNCHANGED <<envVars, files, error, failedIn, train_dataset,
                   test_dataset, learnVars, t, loopVars, mainVars, obsVars>>

\* train_dataset = omniglot(data_path, ..., meta_train=True, download=download)
MainTrainDataset ==
    /\ pc = "train_dataset"
    /\ train_dataset' = download
    /\ files' = DownloadEffect(files, DataPath(config.path), download.of)
    /\ pc' = "test_dataset"
    /\ UNCHANGED <<envVars, error, failedIn, download, test_dataset,
                   learnVars, t, loopVars, mainVars, obsVars>>

\* Mutant: the existence test repeated for the second dataset.
MainTestDatasetRechecked ==
    /\ pc = "test_dataset"
    /\ test_dataset' = PyBool(OmniglotDir(config.path) \notin files)
    /\ files' = DownloadEffect(files, DataPath(config.path),
                               OmniglotDir(config.path) \notin files)
    /\ pc' = "model"
    /\ UNCHANGED <<envVars, error, failedIn, download, train_dataset,
                   learnVars, t, loopVars, mainVars, obsVars>>

\* test_dataset = omniglot(data_path, ..., meta_val=True, download=download)
MainTestDataset ==
    /\ pc = "test_dataset"
    /\ test_dataset' = download
    /\ files' = DownloadEffect(files, DataPath(config.path), download.of)
    /\ pc' = "model"
    /\ UNCHANGED <<envVars, error, failedIn, download, train_dataset,
                   learnVars, t, loopVars, mainVars, obsVars>>

\* the loaders, model = ProtoNetwork(1, 32), optimizer = optim.Adam(...),
\* loss_fn = nn.CrossEntropyLoss(): fresh parameters and optimizer state.
MainModel ==
    /\ pc = "model"
    /\ params' = 0
    /\ optState' = 0
    /\ grad' = <<>>
    /\ t' = 0
    /\ pc' = "epoch"
    /\ UNCHANGED <<envVars, files, error, failedIn, setupVars, loopVars,
                   mainVars, obsVars>>

\* ------------------------------------------------------------------ train()
\* Mutant: the model and the optimizer built inside the epoch loop.
MainEpochTrainFreshModel ==
    /\ pc = "epoch"
    /\ t < config.epochs
    /\ params' = 0
    /\ optState' = 0
    /\ avg_loss' = <<>>
    /\ it' = 0
    /\ trainCalls' = trainCalls + 1
    /\ cnt' = ZeroCnt
    /\ batchLog' = NoCalls
    /\ pc' = "train_iter"
    /\ UNCHANGED <<envVars, files, error, failedIn, setupVars, grad, t,
                   batch_idx, batch, logits, loss, accuracy, accuracy_list,
                   mainVars, testCalls>>

\* for t in range(epochs): train_loss = train(...) is entered; avg_loss = list()
\* and a fresh enumerate over the loader.
MainEpochTrain ==
    /\ pc = "epoch"
    /\ t < config.epochs
    /\ avg_loss' = <<>>
    /\ it' = 0
    /\ trainCalls' = trainCalls + 1
    /\ cnt' = ZeroCnt
    /\ batchLog' = NoCalls
    /\ pc' = "train_iter"
    /\ UNCHANGED <<envVars, files, error, failedIn, setupVars, learnVars, t,
                   batch_idx, batch, logits, loss, accuracy, accuracy_list,
                   mainVars, testCalls>>

\* range(epochs) is exhausted: main returns.
MainLoopExit ==
    /\ pc = "epoch"
    /\ t >= config.epochs
    /\ pc' = "done"
    /\ UNCHANGED <<envVars, files, error, failedIn, setupVars, learnVars, t,
                   loopVars, mainVars, obsVars>>

\* for batch_idx, batch in enumerate(pbar): the loader yields a batch.
TrainIterNext ==
    /\ pc = "train_iter"
    /\ it < trainLen
    /\ batch' = Batch("train", it)
    /\ batch_idx' = it
    /\ it' = it + 1
    /\ batchLog' = NoCalls
    /\ pc' = "train_zero_model"
    /\ UNCHANGED <<envVars, files, error, failedIn, setupVars, learnVars, t,
                   logits, loss, accuracy, avg_loss, accuracy_list, mainVars,
                   cnt, trainCalls, testCalls>>

\* The loader is exhausted: the for loop ends.
TrainIterStop ==
    /\ pc = "train_iter"
    /\ it >= trainLen
    /\ pc' = "train_return"
    /\ UNCHANGED <<envVars, files, error, failedIn, setupVars, learnVars, t,
                   loopVars, mainVars, obsVars>>

\* model.zero_grad()
TrainModelZeroGrad ==
    /\ pc = "train_zero_model"
    /\ grad' = <<>>
    /\ batchLog' = Append(batchLog, "model.zero_grad")
    /\ pc' = "train_forward"
    /\ UNCHANGED <<envVars, files, error, failedIn, setupVars, params,
                   optState, t, loopVars, mainVars, cnt, trainCalls, testCalls>>

\* logits = model(support_x, support_y, query_x)
TrainForward ==
    /\ pc = "train_forward"
    /\ logits' = Forward(params, batch)
    /\ cnt' = Bump(cnt, "forward")
    /\ batchLog' = Append(batchLog, "forward")
    /\ pc' = "train_loss"
    /\ UNCHANGED <<envVars, files, error, failedIn, setupVars, learnVars, t,
                   it, batch_idx, batch, loss, accuracy, avg_loss,
                   accuracy_list, mainVars, trainCalls, testCalls>>

\* loss = loss_fn(logits, query_y)
TrainLoss ==
    /\ pc = "train_loss"
    /\ loss' = LossFn(logits)
    /\ batchLog' = Append(batchLog, "loss_fn")
    /\ pc' = "train_append"
    /\ UNCHANGED <<envVars, files, error, failedIn, setupVars, learnVars, t,
                   it, batch_idx, batch, logits, accuracy, avg_loss,
                   accuracy_list, mainVars, cnt, trainCalls, testCalls>>

\* avg_loss.append(loss.detach().item())
TrainAppend ==
    /\ pc = "train_append"
    /\ avg_loss' = Append(avg_loss, loss)
    /\ batchLog' = Append(batchLog, "append")
    /\ pc' = "train_zero_opt"
    /\ UNCHANGED <<envVars, files, error, failedIn, setupVars, learnVars, t,
                   it, batch_idx, batch, logits, loss, accuracy,
                   accuracy_list, mainVars, cnt, trainCalls, testCalls>>

\* optimizer.zero_grad()
TrainOptZeroGrad ==
    /\ pc = "train_zero_opt"
    /\ grad' = <<>>
    /\ batchLog' = Append(batchLog, "optimizer.zero_grad")
    /\ pc' = "train_backward"
    /\ UNCHANGED <<envVars, files, error, failedIn, setupVars, params,
                   optState, t, loopVars, mainVars, cnt, trainCalls, testCalls>>

\* Mutant: optimizer.zero_grad() placed after loss.backward(), wiping the
\* gradient before the step.
TrainBackwardThenZeroGrad ==
    /\ pc = "train_backward"
    /\ grad' = <<>>
    /\ cnt' = Bump(cnt, "backward")
    /\ batchLog' = batchLog \o <<"backward", "optimizer.zero_grad">>
    /\ pc' = "train_step"
    /\ UNCHANGED <<envVars, files, error, failedIn, setupVars, params,
                   optState, t, loopVars, mainVars, trainCalls, testCalls>>

\* loss.backward(): the gradient of loss is added to the .grad buffers.
TrainBackward ==
    /\ pc = "train_backward"
    /\ grad' = Append(grad, loss)
    /\ cnt' = Bump(cnt, "backward")
    /\ batchLog' = Append(batchLog, "backward")
    /\ pc' = "train_step"
    /\ UNCHANGED <<envVars, files, error, failedIn, setupVars, params,
                   optState, t, loopVars, mainVars, trainCalls, testCalls>>

\* optimizer.step(): parameters with a gradient are updated.
TrainStep ==
    /\ pc = "train_step"
    /\ params' = IF grad = <<>> THEN params ELSE params + 1
    /\ optState' = IF grad = <<>> THEN optState ELSE optState + 1
    /\ cnt' = Bump(cnt, "step")
    /\ batchLog' = Append(batchLog, "step")
    /\ pc' = "train_check"
    /\ UNCHANGED <<envVars, files, error, failedIn, setupVars, grad, t,
                   loopVars, mainVars, trainCalls, testCalls>>

\* if batch_idx > num_batches: break
TrainCheck ==
    /\ pc = "train_check"
    /\ pc' = IF batch_idx > config.num_batches THEN "train_return"
                                               ELSE "train_iter"
    /\ UNCHANGED <<envVars, files, error, failedIn, setupVars, learnVars, t,
                   loopVars, mainVars, obsVars>>

\* return np.mean(avg_loss), bound to train_loss in main.
TrainReturn ==
    /\ pc = "train_return"
    /\ train_loss' = Mean(avg_loss)
    /\ pc' = "log_check"
    /\ UNCHANGED <<envVars, files, error, failedIn, setupVars, learnVars, t,
                   loopVars, test_loss, test_accuracy, scalars, obsVars>>

\* --------------------------------------------------------- main: log check
\* Mutant: log_every = 0 guarded, read as "never log".
MainLogCheckZeroSkips ==
    /\ pc = "log_check"
    /\ config.log_every = 0
    /\ t' = t + 1
    /\ pc' = "epoch"
    /\ UNCHANGED <<envVars, files, error, failedIn, setupVars, learnVars,
                   loopVars, mainVars, obsVars>>

\* if t % config.log_every == 0 with log_every = 0: ZeroDivisionError.
MainLogCheckZeroDiv ==
    /\ pc = "log_check"
    /\ config.log_every = 0
    /\ error' = "ZeroDivisionError"
    /\ failedIn' = "log_check"
    /\ pc' = "crashed"
    /\ UNCHANGED <<envVars, files, setupVars, learnVars, t, loopVars,
                   mainVars, obsVars>>

\* Mutant: the test pass run in every epoch.
MainLogCheckTestAlways ==
    /\ pc = "log_check"
    /\ config.log_every # 0
    /\ accuracy_list' = <<>>
    /\ avg_loss' = <<>>
    /\ it' = 0
    /\ testCalls' = testCalls + 1
    /\ cnt' = ZeroCnt
    /\ batchLog' = NoCalls
    /\ pc' = "test_iter"
    /\ UNCHANGED <<envVars, files, error, failedIn, setupVars, learnVars, t,
                   batch_idx, batch, logits, loss, accuracy, mainVars,
                   trainCalls>>

\* t % log_every == 0: test(...) is entered; its two lists start empty and a
\* fresh enumerate runs over the test loader.
MainLogCheckTest ==
    /\ pc = "log_check"
    /\ config.log_every # 0
    /\ PyMod(t, config.log_every) = 0
    /\ accuracy_list' = <<>>
    /\ avg_loss' = <<>>
    /\ it' = 0
    /\ testCalls' = testCalls + 1
    /\ cnt' = ZeroCnt
    /\ batchLog' = NoCalls
    /\ pc' = "test_iter"
    /\ UNCHANGED <<envVars, files, error, failedIn, setupVars, learnVars, t,
                   batch_idx, batch, logits, loss, accuracy, mainVars,
                   trainCalls>>

\* t % log_every != 0: the loop moves on to the next epoch.
MainLogCheckSkip ==
    /\ pc = "log_check"
    /\ config.log_every # 0
    /\ PyMod(t, config.log_every) # 0
    /\ t' = t + 1
    /\ pc' = "epoch"
    /\ UNCHANGED <<envVars, files, error, failedIn, setupVars, learnVars,
                   loopVars, mainVars, obsVars>>

\* ------------------------------------------------------------------- test()
\* for batch_idx, batch in enumerate(pbar): the loader yields a batch.
TestIterNext ==
    /\ pc = "test_iter"
    /\ it < testLen
    /\ batch' = Batch("val", it)
    /\ batch_idx' = it
    /\ it' = it + 1
    /\ batchLog' = NoCalls
    /\ pc' = "test_zero_model"
    /\ UNCHANGED <<envVars, files, error, failedIn, setupVars, learnVars, t,
                   logits, loss, accuracy, avg_loss, accuracy_list, mainVars,
                   cnt, trainCalls, testCalls>>

\* The loader is exhausted: the for loop ends.
TestIterStop ==
    /\ pc = "test_iter"
    /\ it >= testLen
    /\ pc' = "test_return"
    /\ UNCHANGED <<envVars, files, error, failedIn, setupVars, learnVars, t,
                   loopVars, mainVars, obsVars>>

\* model.zero_grad()
TestModelZeroGrad ==
    /\ pc = "test_zero_model"
    /\ grad' = <<>>
    /\ batchLog' = Append(batchLog, "model.zero_grad")
    /\ pc' = "test_forward"
    /\ UNCHANGED <<envVars, files, error, failedIn, setupVars, params,
                   optState, t, loopVars, mainVars, cnt, trainCalls, testCalls>>

\* logits = model(support_x, support_y, query_x), under torch.no_grad()
TestForward ==
    /\ pc = "test_forward"
    /\ logits' = Forward(params, batch)
    /\ cnt' = Bump(cnt, "forward")
    /\ batchLog' = Append(batchLog, "forward")
    /\ pc' = "test_loss"
    /\ UNCHANGED <<envVars, files, error, failedIn, setupVars, learnVars, t,
                   it, batch_idx, batch, loss, accuracy, avg_loss,
                   accuracy_list, mainVars, trainCalls, testCalls>>

\* Mutant: the training step copied into the test loop.
TestLossWithUpdate ==
    /\ pc = "test_loss"
    /\ loss' = LossFn(logits)
    /\ params' = params + 1
    /\ optState' = optState + 1
    /\ batchLog' = Append(batchLog, "loss_fn")
    /\ pc' = "test_append_loss"
    /\ UNCHANGED <<envVars, files, error, failedIn, setupVars, grad, t,
                   it, batch_idx, batch, logits, accuracy, avg_loss,
                   accuracy_list, mainVars, cnt, trainCalls, testCalls>>

\* loss = loss_fn(logits, query_y)
TestLoss ==
    /\ pc = "test_loss"
    /\ loss' = LossFn(logits)
    /\ batchLog' = Append(batchLog, "loss_fn")
    /\ pc' = "test_append_loss"
    /\ UNCHANGED <<envVars, files, error, failedIn, setupVars, learnVars, t,
                   it, batch_idx, batch, logits, accuracy, avg_loss,
                   accuracy_list, mainVars, cnt, trainCalls, testCalls>>

\* Mutant: the loss appended to the accuracy list.
TestAppendLossToAccuracy ==
    /\ pc = "test_append_loss"
    /\ accuracy_list' = Append(accuracy_list, loss)
    /\ batchLog' = Append(batchLog, "append")
    /\ pc' = "test_accuracy"
    /\ UNCHANGED <<envVars, files, error, failedIn, setupVars, learnVars, t,
                   it, batch_idx, batch, logits, loss, accuracy,
                   avg_loss, mainVars, cnt, trainCalls, testCalls>>

\* avg_loss.append(loss.detach().item())
TestAppendLoss ==
    /\ pc = "test_append_loss"
    /\ avg_loss' = Append(avg_loss, loss)
    /\ batchLog' = Append(batchLog, "append")
    /\ pc' = "test_accuracy"
    /\ UNCHANGED <<envVars, files, error, failedIn, setupVars, learnVars, t,
                   it, batch_idx, batch, logits, loss, accuracy,
                   accuracy_list, mainVars, cnt, trainCalls, testCalls>>

\* test_predictions = torch.argmax(logits, dim=1)
\* accuracy = torch.mean((test_predictions == query_y).float())
TestAccuracy ==
    /\ pc = "test_accuracy"
    /\ accuracy' = Accuracy(logits)
    /\ batchLog' = Append(batchLog, "accuracy")
    /\ pc' = "test_append_acc"
    /\ UNCHANGED <<envVars, files, error, failedIn, setupVars, learnVars, t,
                   it, batch_idx, batch, logits, loss, avg_loss,
                   accuracy_list, mainVars, cnt, trainCalls, testCalls>>

\* accuracy_list.append(accuracy.item())
TestAppendAcc ==
    /\ pc = "test_append_acc"
    /\ accuracy_list' = Append(accuracy_list, accuracy)
    /\ batchLog' = Append(batchLog, "append")
    /\ pc' = "test_check"
    /\ UNCHANGED <<envVars, files, error, failedIn, setupVars, learnVars, t,
                   it, batch_idx, batch, logits, loss, accuracy, avg_loss,
                   mainVars, cnt, trainCalls, testCalls>>

\* if batch_idx > num_batches: break
TestCheck ==
    /\ pc = "test_check"
    /\ pc' = IF batch_idx > config.num_batches THEN "test_return"
                                               ELSE "test_iter"
    /\ UNCHANGED <<envVars, files, error, failedIn, setupVars, learnVars, t,
                   loopVars, mainVars, obsVars>>

\* return np.mean(accuracy_list), np.mean(avg_loss), bound in main to
\* test_accuracy, test_loss.
TestReturn ==
    /\ pc = "test_return"
    /\ test_accuracy' = Mean(accuracy_list)
    /\ test_loss' = Mean(avg_loss)
    /\ pc' = "write_train_loss"
    /\ UNCHANGED <<envVars, files, error, failedIn, setupVars, learnVars, t,
                   loopVars, train_loss, scalars, obsVars>>

\* ------------------------------------------------------------ main: logging
Scalar(tag, value, step) == [tag |-> tag, value |-> value, step |-> step]

\* writer.add_scalar("Train Loss", train_loss, t)
MainWriteTrainLoss ==
    /\ pc = "write_train_loss"
    /\ scalars' = Append(scalars, Scalar("Train Loss", train_loss, t))
    /\ pc' = "write_test_loss"
    /\ UNCHANGED <<envVars, files, error, failedIn, setupVars, learnVars, t,
                   loopVars, train_loss, test_loss, test_accuracy, obsVars>>

\* writer.add_scalar("Test Loss", test_loss, t)
MainWriteTestLoss ==
    /\ pc = "write_test_loss"
    /\ scalars' = Append(scalars, Scalar("Test Loss", test_loss, t))
    /\ pc' = "write_accuracy"
    /\ UNCHANGED <<envVars, files, error, failedIn, setupVars, learnVars, t,
                   loopVars, train_loss, test_loss, test_accuracy, obsVars>>

\* writer.add_scalar("Meta-Test Accuracy", test_accuracy, t); the loop moves
\* on to the next epoch.
MainWriteAccuracy ==
    /\ pc = "write_accuracy"
    /\ scalars' = Append(scalars, Scalar("Meta-Test Accuracy", test_accuracy, t))
    /\ t' = t + 1
    /\ pc' = "epoch"
    /\ UNCHANGED <<envVars, files, error, failedIn, setupVars, learnVars,
                   loopVars, train_loss, test_loss, test_accuracy, obsVars>>

\* ----------------------------------------------------------------- failures
SetupPcs == {"writer", "train_dataset", "test_dataset", "model"}
TrainPcs == {"train_iter", "train_zero_model", "train_forward", "train_loss",
             "train_append", "train_zero_opt", "train_backward", "train_step",
             "train_check", "train_return"}
TestPcs == {"test_iter", "test_zero_model", "test_forward", "test_loss",
            "test_append_loss", "test_accuracy", "test_append_acc",
            "test_check", "test_return"}
WritePcs == {"write_train_loss", "write_test_loss", "write_accuracy"}

\* The positions at which a library call is made.
LibraryPcs ==
    SetupPcs \cup (TrainPcs \ {"train_check", "train_return"})
             \cup (TestPcs \ {"test_check", "test_return"}) \cup WritePcs

Phase(p) ==
    IF p \in SetupPcs THEN "setup"
    ELSE IF p \in TrainPcs THEN "train"
    ELSE IF p \in TestPcs THEN "test"
    ELSE IF p \in WritePcs THEN "write"
    ELSE "main"

\* Mutant: the epoch body wrapped in try/except that moves on to the next
\* epoch.
LibraryRaisesCaught ==
    /\ pc \in LibraryPcs
    /\ error' = "LibraryError"
    /\ failedIn' = Phase(pc)
    /\ pc' = IF pc \in TrainPcs \cup TestPcs THEN "epoch" ELSE "crashed"
    /\ t' = IF pc \in TrainPcs \cup TestPcs THEN t + 1 ELSE t
    /\ UNCHANGED <<envVars, files, setupVars, learnVars, loopVars,
                   mainVars, obsVars>>

\* A library call raises; nothing in train.py catches it, so main() ends.
LibraryRaises ==
    /\ pc \in LibraryPcs
    /\ error' = "LibraryError"
    /\ failedIn' = Phase(pc)
    /\ pc' = "crashed"
    /\ UNCHANGED <<envVars, files, setupVars, learnVars, t, loopVars,
                   mainVars, obsVars>>

\* ------------------------------------------------------------ specification
Next ==
    \/ MainWriter
    \/ MainDownloadFlag
    \/ MainTrainDataset
    \/ MainTestDataset
    \/ MainModel
    \/ MainEpochTrain
    \/ MainLoopExit
    \/ TrainIterNext
    \/ TrainIterStop
    \/ TrainModelZeroGrad
    \/ TrainForward
    \/ TrainLoss
    \/ TrainAppend
    \/ TrainOptZeroGrad
    \/ TrainBackward
    \/ TrainStep
    \/ TrainCheck
    \/ TrainReturn
    \/ MainLogCheckZeroDiv
    \/ MainLogCheckTest
    \/ MainLogCheckSkip
    \/ TestIterNext
    \/ TestIterStop
    \/ TestModelZeroGrad
    \/ TestForward
    \/ TestLoss
    \/ TestAppendLoss
    \/ TestAccuracy
    \/ TestAppendAcc
    \/ TestCheck
    \/ TestReturn
    \/ MainWriteTrainLoss
    \/ MainWriteTestLoss
    \/ MainWriteAccuracy
    \/ LibraryRaises

Spec == Init /\ [][Next]_vars

Terminated == pc \in {"done", "crashed"}

\* The runs from one --path on an empty disk: neither is read after the
\* datasets are built, so the epoch loop runs the same from every other.
FairInit ==
    /\ Init
    /\ config.path = <<"w", "run">>
    /\ files = {}

\* Every enabled step is eventually taken: the script is one thread that
\* runs until it returns or raises.
FairSpec == FairInit /\ [][Next]_vars /\ WF_vars(Next)

\* ------------------------------------------------------- claim vocabulary
Min(a, b) == IF a < b THEN a ELSE b

\* Epoch s is a logging epoch (log_every >= 1).
LogEpoch(s) == s % config.log_every = 0

\* Logging epochs among 0..s-1.
LogEpochsBefore(s) == Cardinality({e \in 0..(s - 1) : LogEpoch(e)})

Tags == <<"Train Loss", "Test Loss", "Meta-Test Accuracy">>

\* The calls the claim orders, as train() makes them for one batch.
ClaimedOrder ==
    <<"forward", "loss_fn", "append", "optimizer.zero_grad", "backward", "step">>

IsPrefix(a, b) == Len(a) <= Len(b) /\ a = SubSeq(b, 1, Len(a))

AtBatchBoundary == pc \in {"train_iter", "train_check", "train_return"}

\* C1: in train() the calls for a batch are made in the order forward, loss,
\* append, optimizer.zero_grad, backward, step; at every batch boundary the
\* call has made one backward and one step per batch consumed; and the i-th
\* loss in the list was computed from the parameters as they were before the
\* i-th update of the call.
C1_TrainStepOrder ==
    pc \in TrainPcs =>
        /\ IsPrefix(SelectSeq(batchLog, LAMBDA c : c # "model.zero_grad"),
                    ClaimedOrder)
        /\ pc = "train_check" =>
               SelectSeq(batchLog, LAMBDA c : c # "model.zero_grad") = ClaimedOrder
        /\ AtBatchBoundary =>
               /\ cnt.forward = it
               /\ cnt.backward = it
               /\ cnt.step = it
               /\ optState = params
        /\ \A i \in 1..Len(avg_loss) :
               avg_loss[i] =
                   LossFn(Forward(params - cnt.step + i - 1, Batch("train", i - 1)))
        /\ pc = "train_check" => params = avg_loss[Len(avg_loss)].of.params + 1

C1_Witness ==
    /\ pc = "train_check"
    /\ it >= 2
    /\ params >= 2
    /\ Len(avg_loss) = it

\* C2: with log_every >= 1 the scalars written are, for each logging epoch
\* in turn, "Train Loss", "Test Loss", "Meta-Test Accuracy" with that epoch
\* as step; between epochs, and when main returns, exactly the logging
\* epochs already run have their three scalars; and test() and add_scalar
\* run only in a logging epoch.
C2_ScalarsOnLogEpochs ==
    config.log_every >= 1 =>
        /\ \A i \in 1..Len(scalars) :
               /\ scalars[i].tag = Tags[((i - 1) % 3) + 1]
               /\ scalars[i].step = ((i - 1) \div 3) * config.log_every
               /\ scalars[i].step \in 0..(config.epochs - 1)
               /\ scalars[i].step % config.log_every = 0
        /\ pc \in {"epoch", "done"} => Len(scalars) = 3 * LogEpochsBefore(t)
        /\ pc = "done" /\ config.epochs >= 0 => t = config.epochs
        /\ pc \in TestPcs \cup WritePcs => t % config.log_every = 0
        /\ testCalls = LogEpochsBefore(t)
                       + (IF pc \in TestPcs \cup WritePcs THEN 1 ELSE 0)
                       + (IF pc = "crashed" /\ failedIn \in {"test", "write"}
                          THEN 1 ELSE 0)

C2_Witness ==
    /\ pc = "done"
    /\ config.log_every = 2
    /\ config.epochs = 3
    /\ Len(scalars) = 6
    /\ scalars[4].step = 2

\* The omniglot directory of the data/ directory beside the parent of --path.
ClaimedOmniglotDir ==
    LET p == config.path
        parent == IF p = <<>> THEN p ELSE SubSeq(p, 1, Len(p) - 1)
    IN  parent \o <<"data", "omniglot">>

DatasetsBuilt == pc \notin {"writer", "download", "train_dataset", "test_dataset"}

\* C3: the download flag is set once, to "the omniglot directory does not
\* exist", while the disk is still as main found it; the flag never changes
\* afterwards, and each dataset is constructed with the flag's value.
C3_DownloadFlag ==
    [][ /\ pc = "writer" => files' = files
        /\ pc = "download" =>
               /\ download' = PyBool(ClaimedOmniglotDir \notin files)
               /\ files' = files
        /\ pc # "download" => download' = download
        /\ pc = "train_dataset" /\ pc' # "crashed" => train_dataset' = download
        /\ pc = "test_dataset" /\ pc' # "crashed" =>
               /\ test_dataset' = download
               /\ test_dataset' = train_dataset
        /\ DatasetsBuilt => /\ train_dataset' = train_dataset
                            /\ test_dataset' = test_dataset ]_vars

C3_Witness ==
    /\ pc = "model"
    /\ config.path = <<"w">>
    /\ <<"w", "data", "omniglot">> \in files
    /\ download = PyBool(TRUE)
    /\ train_dataset = PyBool(TRUE)
    /\ test_dataset = PyBool(TRUE)
    /\ ClaimedOmniglotDir \in files

\* C4: once a library call has raised inside the train or test pass of epoch
\* t, main has ended with that error and takes no further step, no epoch
\* after t was started, no scalar carries step t, and the scalars of the
\* logging epochs before t are all present.
C4_UnhandledFailure ==
    error = "LibraryError" /\ failedIn \in {"train", "test"} =>
        /\ pc = "crashed"
        /\ ~ ENABLED Next
        /\ trainCalls = t + 1
        /\ \A i \in 1..Len(scalars) : scalars[i].step < t
        /\ Len(scalars) =
               3 * Cardinality({e \in 0..(t - 1) :
                                   /\ config.log_every # 0
                                   /\ PyMod(e, config.log_every) = 0})

C4_Witness ==
    /\ pc = "crashed"
    /\ error = "LibraryError"
    /\ failedIn = "test"
    /\ t = 2
    /\ Len(scalars) = 3
    /\ scalars[1].step = 0

\* Batches one train()/test() call consumes from a loader of len batches:
\* the loop leaves after the batch whose index exceeds num_batches.
Consumed(len) ==
    Min(len, IF config.num_batches + 2 > 1 THEN config.num_batches + 2 ELSE 1)

\* ceil(a / b) for b >= 1
CeilDiv(a, b) == (a + b - 1) \div b

\* C5: with epochs = E >= 0 and log_every >= 1, main terminates, having made
\* exactly E train() calls and ceil(E / log_every) test() calls; the test
\* pass of an epoch starts only after its train pass has returned with all
\* its updates applied, and the scalars are written only after the test pass
\* has returned.
C5_SequentialTermination ==
    /\ <>Terminated
    /\ [](config.epochs >= 0 /\ config.log_every >= 1 =>
           /\ trainCalls <= config.epochs
           /\ testCalls <= CeilDiv(config.epochs, config.log_every)
           /\ pc = "done" =>
                  /\ trainCalls = config.epochs
                  /\ testCalls = CeilDiv(config.epochs, config.log_every)
           /\ pc \in TrainPcs => trainCalls = t + 1 /\ testCalls = LogEpochsBefore(t)
           /\ pc \in TestPcs \cup WritePcs =>
                  /\ trainCalls = t + 1
                  /\ train_loss # Unbound
                  /\ Len(train_loss.of) = Consumed(trainLen)
                  /\ params = (t + 1) * Consumed(trainLen)
           /\ pc \in WritePcs =>
                  /\ it = Consumed(testLen)
                  /\ test_loss = Mean(avg_loss)
                  /\ test_accuracy = Mean(accuracy_list)
                  /\ Len(avg_loss) = Consumed(testLen))

C5_Witness ==
    /\ pc = "done"
    /\ config.epochs = 3
    /\ config.log_every = 2
    /\ trainCalls = 3
    /\ testCalls = 2
    /\ params >= 3

\* C6: a train() or test() call with num_batches = n >= 0 has, when its loop
\* ends, consumed at most n batches and made at most n forward passes (and
\* optimizer steps), and exactly n when the loader offers at least n.
C6_AtMostNumBatches ==
    config.num_batches >= 0 /\ pc \in {"train_return", "test_return"} =>
        /\ it <= config.num_batches
        /\ cnt.forward <= config.num_batches
        /\ cnt.step <= config.num_batches
        /\ (IF pc = "train_return" THEN trainLen ELSE testLen)
               >= config.num_batches => it = config.num_batches

C8_TestLeavesLearnedState ==
    [][ /\ pc \in TestPcs => /\ params' = params
                             /\ optState' = optState
                             /\ cnt'.backward = 0
                             /\ cnt'.step = 0
        /\ params' # params \/ optState' # optState => pc = "train_step" ]_vars

C8_Witness ==
    /\ pc = "test_return"
    /\ cnt.forward >= 2
    /\ params >= 1
    /\ t >= 1

\* C9: with log_every = 0 and epochs >= 1 main never returns normally, never
\* enters test(), writes no scalar and starts no second epoch; once the
\* train pass of epoch 0 has returned the only step possible is the
\* ZeroDivisionError, raised with every update of that pass applied.
C9_LogEveryZero ==
    config.log_every = 0 /\ config.epochs >= 1 =>
        /\ pc # "done"
        /\ pc \notin TestPcs \cup WritePcs
        /\ testCalls = 0
        /\ scalars = <<>>
        /\ trainCalls <= 1
        /\ t = 0
        /\ pc = "log_check" =>
               /\ ENABLED MainLogCheckZeroDiv
               /\ ~ ENABLED MainLogCheckTest
               /\ ~ ENABLED MainLogCheckSkip
        /\ error = "ZeroDivisionError" =>
               /\ pc = "crashed"
               /\ ~ ENABLED Next
               /\ trainCalls = 1
               /\ train_loss = Mean(avg_loss)
               /\ Len(avg_loss) = Consumed(trainLen)
               /\ params = Consumed(trainLen)

C9_Witness ==
    /\ config.log_every = 0
    /\ error = "ZeroDivisionError"
    /\ pc = "crashed"
    /\ params >= 2

\* The value train() returns in epoch s when every earlier epoch ran its
\* whole train pass on the same model.
TrainLossOfEpoch(s) ==
    LET k == Consumed(trainLen)
    IN  Mean([i \in 1..k |->
                 LossFn(Forward(s * k + i - 1, Batch("train", i - 1)))])

\* C10: the "Train Loss" scalar with step s is the value train() returned in
\* epoch s, computed from the losses of that epoch's batches alone, and the
\* parameters and optimizer state at the start of epoch t carry the updates
\* of all earlier epochs.
C10_TrainLossOfItsEpoch ==
    /\ \A i \in 1..Len(scalars) :
           scalars[i].tag = "Train Loss" =>
               scalars[i].value = TrainLossOfEpoch(scalars[i].step)
    /\ pc = "epoch" => /\ params = t * Consumed(trainLen)
                       /\ optState = t * Consumed(trainLen)

C10_Witness ==
    /\ config.log_every = 2
    /\ Len(scalars) >= 4
    /\ scalars[4].tag = "Train Loss"
    /\ scalars[4].step = 2
    /\ Len(scalars[4].value.of) >= 2
    /\ scalars[4].value # scalars[1].value

====
